---- MODULE Spec2Model ----
(***************************************************************************)
(* State-machine model of the static-shape (NPU) text generation pipeline  *)
(* NPULLMPipelineImpl (src/cpp/src/llm_pipeline_npu.cpp).                  *)
(*                                                                         *)
(* One pipeline instance is modelled.  A generate call is split at its     *)
(* blocking points: the call up to the padded prefill inputs, the prefill  *)
(* inference up to the loop entry, and one action per loop iteration.      *)
(* Model outputs (the argmax of the logits) and the answers of the         *)
(* streaming sink are inputs chosen from small sets.                       *)
(*                                                                         *)
(* The static speech pipeline StaticWhisperPipeline                        *)
(* (src/cpp/src/whisper_pipeline_static.cpp) is modelled next to it, with  *)
(* its own variables and its own specification SpecWhisper: the chunk loop *)
(* of generate, full_decode up to its decode loop, and one action per      *)
(* decode_with_past call.                                                  *)
(***************************************************************************)
EXTENDS Integers, Sequences, FiniteSets, TLC

\* ---------------------------------------------------------------- bounds
\* KVCacheDesc.total_size is 1024 in the source; the model scales it down.
TotalSize == 3
\* largest value returned by config.get_max_new_tokens(prompt_len)
MaxNewTokens == 3
\* cap on the iterations of the decode loop explored in one call
MaxIter == 4
\* number of generate calls made on the pipeline
MaxCalls == 2
\* number of key/value cache tensors of the generate graph
\* (kvcache_compiled.outputs().size() - 1)
NumCacheLayers == 2
\* largest raw_speech_input.size() of a speech call, in samples
MaxSpeech == 4
\* samples per chunk (m_feature_extractor.n_samples), scaled down
n_samples == 2
\* size of the "attention_mask" tensor of the decode-with-past graph
MaskSize == 6
\* largest value returned by the speech config.get_max_new_tokens()
WhisperMaxNewTokens == 3
\* size of the vocabulary axis of the speech decoders' "logits"
VocabSize == 3
\* largest head count and head size of a text model read by the constructor
MaxDim == 3

\* ---------------------------------------------------------------- data
\* token ids the model can select (argmax of the logits)
Vocab == {1, 2}
\* the tokenizer of the pipeline (m_tokenizer.get_pad_token_id())
m_tokenizer == [pad_token_id |-> 0]
\* the pipeline's default generation configuration
m_generation_config == [eos_token_id |-> 2]
\* eos_token_id of the configuration a call runs with before line 207:
\* -1 (unset by the override) or 1 (set by the override, and different from
\* the pipeline default)
ConfigEosIds == {-1, 1}
\* token ids the speech decoders can select: the indices of a logits row
WhisperVocab == 0..(VocabSize - 1)
\* the finite scores a decoder puts into a logits row
LogitValues == {0, 1}
\* the last-position logits rows an inference can produce (entry j + 1 of
\* the model is vocabulary index j)
LogitRows == [1..VocabSize -> LogitValues]
\* config.suppress_tokens and config.begin_suppress_tokens of a speech call
SuppressSets == {{}, {0}, 1..(VocabSize - 1)}
BeginSuppressSets == {{}, {0}}
\* config.eos_token_id of a speech call
WhisperEosIds == {1}

VARIABLES
    pc,                      \* position of the generate call
    call,                    \* inputs of the current/last call
    outcome,                 \* how the current/last call ended
    ncalls,                  \* number of calls started
    m_kvcache_desc,          \* [total_size, num_stored_tokens]
    prefill_input_ids,       \* m_prefill_request "input_ids"
    prefill_position_ids,    \* m_prefill_request "position_ids"
    prefill_attention_mask,  \* m_prefill_request "attention_mask"
    kvcache_input_ids,       \* m_kvcache_request "input_ids" [0]
    kvcache_position_ids,    \* m_kvcache_request "position_ids" [0]
    kvcache_attention_mask,  \* m_kvcache_request "attention_mask"
    last_token,              \* local last_token
    results_tokens,          \* results.tokens[0]
    i,                       \* loop counter
    streamed,                \* tokens handed to the streaming sink in this call
    sink_stop,               \* last answer of the streaming sink
    n_prefill_infer,         \* m_prefill_request.infer() calls in this call
    n_kvcache_infer,         \* m_kvcache_request.infer() calls in this call
    n_cache_copy,            \* prefill-to-generate transfers in this call
    ub,                      \* an out-of-bounds write has happened
    input_ids,               \* local input_ids (the prompt of the call)
    attention_mask,          \* local attention_mask of the call
    kvcache_inputs,          \* tensor bound to each cache input of
                             \* m_kvcache_request, by cache slot
    cache_copied_from,       \* per cache slot: the prefill outputs copied
                             \* into the bound tensor in this call
    kv_buffer                \* what each slot along the sequence axis of a
                             \* bound cache tensor holds: "none", "pad",
                             \* "prompt" or "token" (all layers alike)

\* StaticWhisperPipeline
VARIABLES
    wpc,                     \* position of the speech generate call
    wcall,                   \* inputs of the current/last speech call
    output_tokens,           \* generate: output_tokens
    chunk_offset,            \* generate: chunk_offset
    cancelled,               \* generate: cancelled
    max_new_tokens,          \* full_decode: max_new_tokens of the last chunk
    chunk_output_tokens,     \* full_decode: output_tokens
    loop_i,                  \* full_decode: loop counter i
    dwp_input_ids,           \* decoder_with_past "input_ids" [0]
    dwp_position_ids,        \* decoder_with_past "position_ids" [0]
    dwp_attention_mask,      \* decoder_with_past "attention_mask"
    cross_attn_from,         \* chunk whose encoder key/values are in the
                             \* decoder_with_past inputs (-1: none)
    self_attn_copies,        \* update_past_key_value calls of this chunk:
                             \* <<[source, kv_pos]>>
    n_encode,                \* encode calls in this call
    n_decode,                \* decode calls in this call
    n_dwp_infer,             \* decoder_with_past.infer() calls in this call
    n_cross_copy,            \* copy_cross_attn_key_value calls in this call
    raw_logits,              \* last-position logits row as the last
                             \* inference of this call produced it
    output_tensor,           \* the same row after suppress_tokens
    sink_tokens              \* tokens put to the streaming sink by the
                             \* last full_decode of this call

tvars == <<pc, call, outcome, ncalls, m_kvcache_desc, prefill_input_ids,
           prefill_position_ids, prefill_attention_mask, kvcache_input_ids,
           kvcache_position_ids, kvcache_attention_mask, last_token,
           results_tokens, i, streamed, sink_stop, n_prefill_infer,
           n_kvcache_infer, n_cache_copy, ub, input_ids, attention_mask,
           kvcache_inputs, cache_copied_from, kv_buffer>>

wvars == <<wpc, wcall, output_tokens, chunk_offset, cancelled,
           max_new_tokens, chunk_output_tokens, loop_i, dwp_input_ids,
           dwp_position_ids, dwp_attention_mask, cross_attn_from,
           self_attn_copies, n_encode, n_decode, n_dwp_infer, n_cross_copy,
           raw_logits, output_tensor, sink_tokens>>

\* the constructor of NPULLMPipelineImpl
VARIABLES
    ctor_pc,                 \* position of the constructor
    kvcache_model,           \* kvcache_model: parameters and results
    prefill_model            \* prefill_model: parameters and results

cvars == <<ctor_pc, kvcache_model, prefill_model>>

vars == <<tvars, wvars, cvars>>

\* what a step of a text call, of a speech call leaves alone
nontext == <<wvars, cvars>>
nonspeech == <<tvars, cvars>>

\* the tensors and the descriptor owned by the pipeline
pipeline == <<m_kvcache_desc, prefill_input_ids, prefill_position_ids,
              prefill_attention_mask, kvcache_input_ids,
              kvcache_position_ids, kvcache_attention_mask, kvcache_inputs,
              kv_buffer>>

\* ---------------------------------------------------------------- helpers
\* fill_tensor: every element becomes fill_val
fill_tensor(tensor, fill_val) == [j \in 1..Len(tensor) |-> fill_val]

\* copy_with_left_offset: orig is copied to the tail of padded
copy_without_offset(orig, padded) ==
    [j \in 1..Len(padded) |-> IF j <= Len(orig) THEN orig[j] ELSE padded[j]]
copy_with_left_offset(orig, padded) ==
    LET kLeftOffset == Len(padded) - Len(orig)
    IN  [j \in 1..Len(padded) |->
            IF j > kLeftOffset THEN orig[j - kLeftOffset] ELSE padded[j]]

\* std::iota(data + first, data + size, 0) on a buffer (0-based first)
iota_from(buffer, first) ==
    [j \in 1..Len(buffer) |-> IF j > first THEN j - 1 - first ELSE buffer[j]]

\* the prompts of length n a call is made with: 1, 2, 1, 2, ...
Prompts(n) == {[j \in 1..n |-> 1 + ((j - 1) % 2)]}

\* attention masks a tokenizer hands over for a prompt of length n: all
\* ones, or a zero in front
Masks(n) == {[j \in 1..n |-> IF j = z THEN 0 ELSE 1] : z \in {0, 1}}

\* utils::init_attention_mask: all ones
init_attention_mask(ids) == [j \in 1..Len(ids) |-> 1]

\* ---------------------------------------------------------------- code
\* KVCacheDesc { 1024u, 0u } of the constructor, scaled to TotalSize
InitialKVCacheDesc == [total_size |-> TotalSize, num_stored_tokens |-> 0]

\* The checks of generate() in the order the code makes them; "none" when
\* the call passes all of them.
\*   vector-of-strings input                -> batch error  (line 175)
\*   input_ids.get_shape().at(0) > 1        -> batch error  (line 202)
\*   config.validate()                      -> validation error (line 209)
\*   !config.is_greedy_decoding()           -> greedy error (line 221)
\*   prompt_len > total_size                -> capacity error (line 232)
ValidationErrorNoGreedy(c, desc) ==
    IF c.vector THEN "batch"
    ELSE IF c.batch > 1 THEN "batch"
    ELSE IF ~c.valid THEN "validate"
    ELSE IF c.prompt_len > desc.total_size THEN "capacity"
    ELSE "none"
ValidationErrorOffByOne(c, desc) ==
    IF c.vector THEN "batch"
    ELSE IF c.batch > 1 THEN "batch"
    ELSE IF ~c.valid THEN "validate"
    ELSE IF ~c.greedy THEN "greedy"
    ELSE IF c.prompt_len > desc.total_size + 1 THEN "capacity"
    ELSE "none"
ValidationError(c, desc) ==
    IF c.vector THEN "batch"
    ELSE IF c.batch > 1 THEN "batch"
    ELSE IF ~c.valid THEN "validate"
    ELSE IF ~c.greedy THEN "greedy"
    ELSE IF c.prompt_len > desc.total_size THEN "capacity"
    ELSE "none"

\* lines 205-208: the eos_token_id of the configuration in effect
ConfigEosTokenId(c) ==
    IF c.eos_token_id = -1 THEN m_generation_config.eos_token_id
    ELSE c.eos_token_id

\* prepare_for_new_conversation on the pipeline's tensors and descriptor
prepare_keeps_stored(st) ==
    [st EXCEPT !.p_ids  = fill_tensor(st.p_ids, m_tokenizer.pad_token_id),
               !.p_pos  = fill_tensor(st.p_pos, 0),
               !.p_mask = fill_tensor(st.p_mask, 0),
               !.k_mask = fill_tensor(st.k_mask, 0)]
prepare_keeps_mask(st) ==
    [st EXCEPT !.p_ids  = fill_tensor(st.p_ids, m_tokenizer.pad_token_id),
               !.p_pos  = fill_tensor(st.p_pos, 0),
               !.k_mask = fill_tensor(st.k_mask, 0),
               !.desc   = [st.desc EXCEPT !.num_stored_tokens = 0]]
prepare_for_new_conversation(st) ==
    [st EXCEPT !.p_ids  = fill_tensor(st.p_ids, m_tokenizer.pad_token_id),
               !.p_pos  = fill_tensor(st.p_pos, 0),
               !.p_mask = fill_tensor(st.p_mask, 0),
               !.k_mask = fill_tensor(st.k_mask, 0),
               !.desc   = [st.desc EXCEPT !.num_stored_tokens = 0]]

\* line 251: m_kvcache_desc.num_stored_tokens += prompt_len
StorePrompt(desc, prompt_len) ==
    [desc EXCEPT !.num_stored_tokens = @ + prompt_len]

\* line 287: m_kvcache_desc.num_stored_tokens += 1
StoreToken(desc) == [desc EXCEPT !.num_stored_tokens = @ + 1]

\* lines 253 and 293: streamer_ptr && streamer_ptr->put(last_token)
StreamerIgnored(has_streamer, put_result) == FALSE
StreamerStops(has_streamer, put_result) == has_streamer /\ put_result

\* line 297: last_token == m_generation_config.eos_token_id
\* (the pipeline default, not the configuration computed at lines 205-208)
EosReached(token, c) == token = m_generation_config.eos_token_id

\* line 302: num_stored_tokens == total_size
KVCacheFull(desc) == desc.num_stored_tokens = desc.total_size

\* line 281: i < max_tokens - 1, with int i and size_t max_tokens.  The
\* subtraction is unsigned: for max_tokens = 0 it yields SIZE_MAX, and every
\* non-negative i converted to size_t is below it.
LoopCond(k, max_tokens) ==
    IF max_tokens = 0 THEN TRUE ELSE k < max_tokens - 1

\* line 284: the index total_size - num_stored_tokens - 1 into the mask.
\* The operands are unsigned, so a negative value here stands for the
\* wrapped index, which is outside the buffer as well.
MaskWriteAtStored(desc) == desc.num_stored_tokens
MaskWriteIndex(desc) == desc.total_size - desc.num_stored_tokens - 1

\* line 246: the first slot std::iota writes, total_size - prompt_len + 1
IotaFirst(desc, prompt_len) == desc.total_size - prompt_len + 1

\* lines 262-263: where the cache tensors start in the generate graph's
\* input list (input_ids, attention_mask, position_ids, ...) and output
\* list (logits, ...)
kStartInputKVCacheLayers == 3
kStartOutputKVCacheLayers == 1

\* the cache slots i of the loop at line 266
CacheSlots == 0..(NumCacheLayers - 1)

\* before any set_tensor, every cache input has its own tensor
OwnCacheInputs ==
    [s \in CacheSlots |-> <<"input", kStartInputKVCacheLayers + s>>]

\* lines 267-270: the tensor of output number 1 + i becomes input 3 + i
BindShifted(inputs) ==
    [s \in CacheSlots |->
        <<"output", kStartOutputKVCacheLayers + ((s + 1) % NumCacheLayers)>>]
BindCacheInputs(inputs) ==
    [s \in CacheSlots |-> <<"output", kStartOutputKVCacheLayers + s>>]

\* lines 271-273: the prefill output named like generate output 1 + i is
\* copied into the tensor now bound to input 3 + i
CopyPrefillCache(copied) ==
    [s \in CacheSlots |->
        Append(copied[s], <<"prefill", kStartOutputKVCacheLayers + s>>)]

\* the prefill graph's cache outputs (copied whole into the bound tensors
\* at lines 271-273): one entry per position of the padded prompt, the
\* rightmost prompt_len of them real
PrefillPresent(padded_ids, prompt_len) ==
    [j \in 1..Len(padded_ids) |->
        IF j > Len(padded_ids) - prompt_len THEN "prompt" ELSE "pad"]

\* add_slices_to_kvcache_inputs lines 30-48: the consumers of a cache input
\* read its slice [1, shape[2]) along the sequence axis
KVCacheSliceFromZero(buf) == SubSeq(buf, 1, Len(buf) - 1)
KVCacheSlice(buf) == SubSeq(buf, 2, Len(buf))

\* the generate graph's cache output, written into the tensor bound as its
\* input (lines 267-270): the sliced input followed by the entry of the
\* token processed in this step
KVCachePresent(buf) == KVCacheSlice(buf) \o <<"token">>

\* ------------------------------------------- constructor: graphs
\* A model is its parameters and results in order. A parameter has a name,
\* a shape and the slice [start, stop) of the sequence axis its consumers
\* read (<< >>: they read all of it). A dimension of -1 is dynamic. Entry
\* k + 1 of a shape is the source's shape[k].
NonCacheName(base) == [base |-> base, layer |-> 0, part |-> "none"]
CacheName(base, l, part) == [base |-> base, layer |-> l, part |-> part]

\* the cache tensors of a model with the given number of layers, in order
CacheTensors(base, layers, heads, dim) ==
    [k \in 1..(2 * layers) |->
        [name |-> CacheName(base, (k + 1) \div 2,
                            IF k % 2 = 1 THEN "key" ELSE "value"),
         shape |-> <<-1, heads, -1, dim>>,
         slice |-> << >>]]

\* lines 129-131: the model read from disk with its cache exposed as
\* parameters and results by StatefulToStateless, all shapes dynamic
TemplateModel(layers, heads, dim) ==
    [params |->
        <<[name |-> NonCacheName("input_ids"), shape |-> <<-1, -1>>,
           slice |-> << >>],
          [name |-> NonCacheName("attention_mask"), shape |-> <<-1, -1>>,
           slice |-> << >>],
          [name |-> NonCacheName("position_ids"), shape |-> <<-1, -1>>,
           slice |-> << >>]>>
        \o CacheTensors("past_key_values", layers, heads, dim),
     results |->
        <<[name |-> NonCacheName("logits"), shape |-> <<-1, -1, -1>>,
           slice |-> << >>]>>
        \o CacheTensors("present", layers, heads, dim)]

Templates ==
    {TemplateModel(l, h, d) :
        l \in 1..NumCacheLayers, h \in 1..MaxDim, d \in 1..MaxDim}

NoModel == [params |-> << >>, results |-> << >>]

\* the length of the sequence axis the consumers of a parameter read
Seen(param) ==
    IF param.slice = << >> THEN param.shape[3]
    ELSE param.slice[2] - param.slice[1]

\* shape inference of model->reshape (line 76) and of the ov::Model
\* constructor (line 51): a cache result holds the cache its graph reads
\* followed by the entries of the input tokens
InferResults(params, results) ==
    LET input_len == params[1].shape[2]
    IN  [k \in 1..Len(results) |->
            IF results[k].name.base = "logits"
            THEN [results[k] EXCEPT !.shape = <<1, input_len, @[3]>>]
            ELSE LET past == params[k + 2]
                 IN  [results[k] EXCEPT
                        !.shape = <<past.shape[1], past.shape[2],
                                    Seen(past) + input_len,
                                    past.shape[4]>>]]

\* reshape_to_static lines 54-77
reshape_to_static(model, input_size, kvcache_size) ==
    LET new_shape(param) ==
            IF param.name.base = "input_ids" THEN <<1, input_size>>
            ELSE IF param.name.base = "attention_mask"
            THEN <<1, kvcache_size>>
            ELSE IF param.name.base = "position_ids"
            THEN <<1, input_size>>
            ELSE <<1, param.shape[2], kvcache_size - input_size,
                   param.shape[4]>>
        params == [k \in 1..Len(model.params) |->
                      [model.params[k] EXCEPT
                          !.shape = new_shape(model.params[k])]]
    IN  [params |-> params,
         results |-> InferResults(params, model.results)]

\* add_slices_to_kvcache_inputs lines 14-52
add_no_slices(model) == model
add_slices_to_kvcache_inputs(model) ==
    LET new_param(param) ==
            IF param.name.base # "past_key_values" THEN param
            ELSE LET shape == [param.shape EXCEPT ![3] = @ + 1]
                 IN  [param EXCEPT !.shape = shape,
                                   !.slice = <<1, shape[3]>>]
        new_params == [k \in 1..Len(model.params) |->
                          new_param(model.params[k])]
    IN  [params |-> new_params,
         results |-> InferResults(new_params, model.results)]

\* constructor lines 136-142 on a model read from disk
BuildPrefillModel(template) ==
    reshape_to_static(template, InitialKVCacheDesc.total_size,
                      InitialKVCacheDesc.total_size)
BuildKVCacheModel(template) ==
    add_slices_to_kvcache_inputs(
        reshape_to_static(template, 1, InitialKVCacheDesc.total_size))

\* ------------------------------------------- speech pipeline: operators
\* full_decode line 303: the fixed special-token prompt of the first decode
StartTokens == <<50258, 50259, 50359, 50363>>
\* prepare_decoder_with_past line 289: the leading ones of the built mask
PrefixOnes == 3

\* prepare_decoder_with_past lines 287-291: ones on [0, 3), zeros on
\* [3, size - 1), one on size - 1 (index j of the model is position j - 1)
BuildMask(size) ==
    [j \in 1..size |->
        IF j <= PrefixOnes THEN 1 ELSE IF j <= size - 1 THEN 0 ELSE 1]

\* full_decode line 318: the position_id handed to decode_with_past
PositionFromEnd(k) == MaskSize - k
PositionId(k) == k + Len(StartTokens)

\* decode_with_past line 232: the mask position set to one
MaskFlipAtPosition(position_id) == position_id
MaskFlipIndex(position_id) == position_id - 1

\* full_decode line 316: i < max_new_tokens - 1 on size_t (0 - 1 wraps to
\* the largest value)
WhisperLoopCond(k, n) == IF n = 0 THEN TRUE ELSE k < n - 1

\* full_decode line 311: a budget of one token ends after the first decode
FirstTokenNeverOnly(n) == FALSE
FirstTokenOnly(n) == n = 1

\* generate line 390: the budget of the call is used up
BudgetOvershot(len, n) == len > n
BudgetUsedUp(len, n) == len >= n

\* generate line 409: the chunk loop stops when full_decode was cancelled
OuterLoopGoesOn(c) == FALSE
OuterLoopStops(c) == c

\* suppress_tokens line 44: -std::numeric_limits<float>::infinity(), below
\* every finite score
NegInf == -1

\* suppress_tokens lines 35-46: every listed index of the last-position row
\* is overwritten with negative infinity, in place
suppress_nothing(row, tokens) == row
suppress_tokens(row, tokens) ==
    [j \in 1..Len(row) |-> IF (j - 1) \in tokens THEN NegInf ELSE row[j]]

\* utils::argmax: index of the first maximum of the last-position row
argmax(row) ==
    CHOOSE j \in 0..(Len(row) - 1) :
        /\ \A k \in 0..(Len(row) - 1) : row[k + 1] <= row[j + 1]
        /\ \A k \in 0..(j - 1) : row[k + 1] < row[j + 1]

\* decode lines 213-218: begin_suppress_tokens, then suppress_tokens
DecodeLogits(raw, config) ==
    suppress_tokens(suppress_tokens(raw, config.begin_suppress_tokens),
                    config.suppress_tokens)

\* decode_with_past line 277: suppress_tokens only
DecodeWithPastLogits(raw, config) ==
    suppress_tokens(raw, config.suppress_tokens)

\* a logits row nothing has been written to
NoLogits == [j \in 1..VocabSize |-> 0]

\* the speech call record while no call is running
NoWhisperCall ==
    [size |-> 0, valid |-> TRUE, max_new_tokens |-> 0, streamer |-> FALSE,
     begin_suppress_tokens |-> {}, suppress_tokens |-> {},
     eos_token_id |-> 1]

\* the speech pipeline after construction, no call running
WhisperInit ==
    /\ wpc = "idle"
    /\ wcall = NoWhisperCall
    /\ output_tokens = << >>
    /\ chunk_offset = 0
    /\ cancelled = FALSE
    /\ max_new_tokens = 0
    /\ chunk_output_tokens = << >>
    /\ loop_i = 0
    /\ dwp_input_ids = 0
    /\ dwp_position_ids = 0
    /\ dwp_attention_mask = [j \in 1..MaskSize |-> 0]
    /\ cross_attn_from = -1
    /\ self_attn_copies = << >>
    /\ n_encode = 0
    /\ n_decode = 0
    /\ n_dwp_infer = 0
    /\ n_cross_copy = 0
    /\ raw_logits = NoLogits
    /\ output_tensor = NoLogits
    /\ sink_tokens = << >>

\* ---------------------------------------------------------------- state
\* the call record while no call is running
NoCall ==
    [vector |-> FALSE, batch |-> 1, valid |-> TRUE, greedy |-> TRUE,
     prompt_len |-> 0, eos_token_id |-> -1, max_new_tokens |-> 0,
     streamer |-> FALSE]

PipelineInit ==
    /\ pc = "idle"
    /\ call = NoCall
    /\ outcome = "none"
    /\ ncalls = 0
    /\ m_kvcache_desc = InitialKVCacheDesc
    /\ prefill_input_ids = [j \in 1..TotalSize |-> m_tokenizer.pad_token_id]
    /\ prefill_position_ids = [j \in 1..TotalSize |-> 0]
    /\ prefill_attention_mask = [j \in 1..TotalSize |-> 0]
    /\ kvcache_input_ids = 0
    /\ kvcache_position_ids = 0
    /\ kvcache_attention_mask = [j \in 1..TotalSize |-> 0]
    /\ last_token = 0
    /\ results_tokens = << >>
    /\ i = 0
    /\ streamed = << >>
    /\ sink_stop = FALSE
    /\ n_prefill_infer = 0
    /\ n_kvcache_infer = 0
    /\ n_cache_copy = 0
    /\ ub = FALSE
    /\ input_ids = << >>
    /\ attention_mask = << >>
    /\ kvcache_inputs = OwnCacheInputs
    /\ cache_copied_from = [s \in CacheSlots |-> << >>]
    /\ kv_buffer = [j \in 1..TotalSize |-> "none"]
    /\ WhisperInit

\* the state after construction: the graphs are built and compiled, no call
\* has been made
Init ==
    /\ PipelineInit
    /\ ctor_pc = "compiled"
    /\ prefill_model = BuildPrefillModel(TemplateModel(NumCacheLayers, 1, 1))
    /\ kvcache_model = BuildKVCacheModel(TemplateModel(NumCacheLayers, 1, 1))

\* what every call starts with: empty results, nothing run yet
NewCall(c) ==
    /\ call' = c
    /\ ncalls' = ncalls + 1
    /\ results_tokens' = << >>
    /\ streamed' = << >>
    /\ sink_stop' = FALSE
    /\ n_prefill_infer' = 0
    /\ n_kvcache_infer' = 0
    /\ n_cache_copy' = 0
    /\ i' = 0
    /\ last_token' = 0
    /\ UNCHANGED nontext
    /\ cache_copied_from' = [s \in CacheSlots |-> << >>]

\* generate(): a call that fails one of the checks throws
GenerateRejected(c) ==
    /\ pc = "idle"
    /\ ncalls < MaxCalls
    /\ ValidationError(c, m_kvcache_desc) # "none"
    /\ NewCall(c)
    /\ pc' = "error"
    /\ outcome' = ValidationError(c, m_kvcache_desc)
    /\ input_ids' = << >>
    /\ attention_mask' = << >>
    /\ UNCHANGED <<pipeline, ub>>

\* generate() lines 185-246: a call that passes the checks resets the
\* tensors and left-pads the prompt into the prefill inputs
GenerateAccepted(c, ids, mask) ==
    /\ pc = "idle"
    /\ ncalls < MaxCalls
    /\ ValidationError(c, m_kvcache_desc) = "none"
    /\ NewCall(c)
    /\ outcome' = "none"
    /\ input_ids' = ids
    /\ attention_mask' = mask
    /\ LET st == prepare_for_new_conversation(
                     [desc   |-> m_kvcache_desc,
                      p_ids  |-> prefill_input_ids,
                      p_pos  |-> prefill_position_ids,
                      p_mask |-> prefill_attention_mask,
                      k_mask |-> kvcache_attention_mask])
           first == IotaFirst(st.desc, c.prompt_len)
       IN  /\ m_kvcache_desc' = st.desc
           /\ prefill_input_ids' = copy_with_left_offset(ids, st.p_ids)
           /\ prefill_attention_mask' =
                  copy_with_left_offset(mask, st.p_mask)
           /\ kvcache_attention_mask' = st.k_mask
           /\ IF first <= Len(st.p_pos)
              THEN /\ prefill_position_ids' = iota_from(st.p_pos, first)
                   /\ pc' = "padded"
                   /\ ub' = ub
              ELSE \* std::iota with first past last: writes outside the
                   \* buffer; the process dies or goes on
                   /\ prefill_position_ids' = st.p_pos
                   /\ ub' = TRUE
                   /\ pc' \in {"crashed", "padded"}
    /\ UNCHANGED <<kvcache_input_ids, kvcache_position_ids, kvcache_inputs,
                   kv_buffer>>

\* the inputs of a call
Calls ==
    [vector : BOOLEAN, batch : {1, 2}, valid : BOOLEAN, greedy : BOOLEAN,
     prompt_len : 0..(TotalSize + 1), eos_token_id : ConfigEosIds,
     max_new_tokens : 0..MaxNewTokens, streamer : BOOLEAN]

\* a rejected call never reads these three fields: one value each is enough
RejectedCalls ==
    {c \in Calls : /\ c.eos_token_id = -1
                   /\ c.max_new_tokens = 1
                   /\ ~c.streamer}

Generate ==
    \/ \E c \in RejectedCalls : GenerateRejected(c)
    \/ \E c \in Calls :
           \E ids \in Prompts(c.prompt_len) :
           \E tokenized \in BOOLEAN :
           \E mask \in
                  (IF tokenized THEN Masks(c.prompt_len)
                   ELSE {init_attention_mask(ids)}) :
               GenerateAccepted(c, ids, mask)

\* lines 248-278: prefill inference, first token, streaming sink, and on
\* the way into the loop the mask copy and the cache transfer
Prefill ==
    /\ pc = "padded"
    /\ n_prefill_infer' = n_prefill_infer + 1
    /\ m_kvcache_desc' = StorePrompt(m_kvcache_desc, call.prompt_len)
    /\ \E token \in Vocab, put_result \in BOOLEAN :
        /\ last_token' = token
        /\ streamed' = IF call.streamer THEN Append(streamed, token)
                       ELSE streamed
        /\ sink_stop' = (call.streamer /\ put_result)
        /\ IF StreamerStops(call.streamer, put_result)
           THEN /\ pc' = "returned"
                /\ outcome' = "stream_prefill"
                /\ UNCHANGED <<kvcache_attention_mask, n_cache_copy,
                               kvcache_inputs, cache_copied_from, kv_buffer>>
           ELSE /\ pc' = "loop"
                /\ outcome' = "none"
                /\ kvcache_attention_mask' = prefill_attention_mask
                /\ n_cache_copy' = n_cache_copy + 1
                /\ kvcache_inputs' = BindCacheInputs(kvcache_inputs)
                /\ cache_copied_from' = CopyPrefillCache(cache_copied_from)
                /\ kv_buffer' = PrefillPresent(prefill_input_ids,
                                                call.prompt_len)
    /\ i' = 0
    /\ UNCHANGED <<call, ncalls, prefill_input_ids, prefill_position_ids,
                   prefill_attention_mask, kvcache_input_ids,
                   kvcache_position_ids, results_tokens, n_kvcache_infer, ub,
                   input_ids, attention_mask, nontext>>

\* lines 281-306: one iteration of the decode loop
LoopStep ==
    /\ pc = "loop"
    /\ i < MaxIter
    /\ LoopCond(i, call.max_new_tokens)
    /\ kvcache_input_ids' = last_token
    /\ kvcache_position_ids' = m_kvcache_desc.num_stored_tokens
    /\ LET idx == MaskWriteIndex(m_kvcache_desc)
           inside == idx >= 0 /\ idx < Len(kvcache_attention_mask)
       IN  /\ kvcache_attention_mask' =
                  IF inside
                  THEN [kvcache_attention_mask EXCEPT ![idx + 1] = 1]
                  ELSE kvcache_attention_mask
           /\ ub' = (ub \/ ~inside)
           /\ \/ \* the out-of-bounds write kills the process
                 /\ ~inside
                 /\ pc' = "crashed"
                 /\ UNCHANGED <<m_kvcache_desc, last_token, results_tokens,
                                i, streamed, sink_stop, n_kvcache_infer,
                                outcome, kv_buffer>>
              \/ \* the inference runs
                 /\ n_kvcache_infer' = n_kvcache_infer + 1
                 /\ m_kvcache_desc' = StoreToken(m_kvcache_desc)
                 /\ kv_buffer' = KVCachePresent(kv_buffer)
                 /\ \E token \in Vocab, put_result \in BOOLEAN :
                     /\ last_token' = token
                     /\ results_tokens' = Append(results_tokens, token)
                     /\ streamed' = IF call.streamer
                                    THEN Append(streamed, token)
                                    ELSE streamed
                     /\ sink_stop' = (call.streamer /\ put_result)
                     /\ IF StreamerStops(call.streamer, put_result)
                        THEN pc' = "returned" /\ outcome' = "stream" /\ i' = i
                        ELSE IF EosReached(token, call)
                        THEN pc' = "returned" /\ outcome' = "eos" /\ i' = i
                        ELSE IF KVCacheFull(m_kvcache_desc')
                        THEN pc' = "returned" /\ outcome' = "full" /\ i' = i
                        ELSE pc' = "loop" /\ outcome' = "none" /\ i' = i + 1
    /\ UNCHANGED <<call, ncalls, prefill_input_ids, prefill_position_ids,
                   prefill_attention_mask, n_prefill_infer, n_cache_copy,
                   input_ids, attention_mask, kvcache_inputs,
                   cache_copied_from, nontext>>

\* line 281 false, line 307: the loop ends on the token count
LoopExit ==
    /\ pc = "loop"
    /\ ~LoopCond(i, call.max_new_tokens)
    /\ pc' = "returned"
    /\ outcome' = "maxlen"
    /\ UNCHANGED <<call, ncalls, pipeline, last_token, results_tokens, i,
                   streamed, sink_stop, n_prefill_infer, n_kvcache_infer,
                   n_cache_copy, ub, input_ids, attention_mask,
                   cache_copied_from, nontext>>

\* lines 175-232 (throw) and 254, 307 (return results): control is back
\* with the caller, the locals of the call are gone, the pipeline stays
Return ==
    /\ pc \in {"returned", "error"}
    /\ pc' = "idle"
    /\ call' = NoCall
    /\ outcome' = "none"
    /\ last_token' = 0
    /\ results_tokens' = << >>
    /\ i' = 0
    /\ streamed' = << >>
    /\ sink_stop' = FALSE
    /\ n_prefill_infer' = 0
    /\ n_kvcache_infer' = 0
    /\ n_cache_copy' = 0
    /\ input_ids' = << >>
    /\ attention_mask' = << >>
    /\ cache_copied_from' = [s \in CacheSlots |-> << >>]
    /\ UNCHANGED <<pipeline, ncalls, ub, nontext>>

Next == Generate \/ Prefill \/ LoopStep \/ LoopExit \/ Return

Spec == Init /\ [][Next]_vars

\* ------------------------------------------- speech pipeline: actions
\* the speech calls made on the pipeline
WhisperCalls ==
    [size : 0..MaxSpeech, valid : BOOLEAN,
     max_new_tokens : 0..WhisperMaxNewTokens, streamer : BOOLEAN,
     begin_suppress_tokens : BeginSuppressSets,
     suppress_tokens : SuppressSets, eos_token_id : WhisperEosIds]

\* generate lines 371-387: configuration, validate(), streamer, empty
\* output_tokens, max_new_tokens, chunk_offset = 0
WhisperGenerate ==
    /\ wpc = "idle"
    /\ \E c \in WhisperCalls :
        /\ wcall' = c
        /\ wpc' = IF c.valid THEN "chunk" ELSE "error"
    /\ output_tokens' = << >>
    /\ chunk_offset' = 0
    /\ cancelled' = FALSE
    /\ max_new_tokens' = 0
    /\ chunk_output_tokens' = << >>
    /\ loop_i' = 0
    /\ self_attn_copies' = << >>
    /\ n_encode' = 0
    /\ n_decode' = 0
    /\ n_dwp_infer' = 0
    /\ n_cross_copy' = 0
    /\ raw_logits' = NoLogits
    /\ output_tensor' = NoLogits
    /\ sink_tokens' = << >>
    /\ UNCHANGED <<dwp_input_ids, dwp_position_ids, dwp_attention_mask,
                   cross_attn_from, nonspeech>>

\* generate lines 389-392, 414-415: the chunk loop ends on the end of the
\* audio or on the used-up budget, and the results are returned
ChunkLoopExit ==
    /\ wpc = "chunk"
    /\ \/ ~(chunk_offset < wcall.size)
       \/ BudgetUsedUp(Len(output_tokens), wcall.max_new_tokens)
    /\ wpc' = "returned"
    /\ UNCHANGED <<wcall, output_tokens, chunk_offset, cancelled,
                   max_new_tokens, chunk_output_tokens, loop_i,
                   dwp_input_ids, dwp_position_ids, dwp_attention_mask,
                   cross_attn_from, self_attn_copies, n_encode, n_decode,
                   n_dwp_infer, n_cross_copy, raw_logits, output_tensor,
                   sink_tokens, nonspeech>>

\* generate lines 389-411 with full_decode lines 303-315: one chunk is
\* extracted and encoded, the first token is decoded and streamed; the
\* chunk ends there (sink stop, budget of one) or the decoder-with-past is
\* prepared for the decode loop
Chunk ==
    /\ wpc = "chunk"
    /\ chunk_offset < wcall.size
    /\ ~BudgetUsedUp(Len(output_tokens), wcall.max_new_tokens)
    /\ n_encode' = n_encode + 1
    /\ n_decode' = n_decode + 1
    /\ max_new_tokens' = wcall.max_new_tokens - Len(output_tokens)
    /\ \E raw \in LogitRows, put_result \in BOOLEAN :
        /\ raw_logits' = raw
        /\ output_tensor' = DecodeLogits(raw, wcall)
        /\ chunk_output_tokens' = <<argmax(output_tensor')>>
        /\ sink_tokens' = IF wcall.streamer THEN chunk_output_tokens'
                           ELSE << >>
        /\ IF wcall.streamer /\ put_result
           THEN \* line 308: return { true, output_tokens }
                /\ cancelled' = TRUE
                /\ output_tokens' = output_tokens \o chunk_output_tokens'
                /\ IF OuterLoopStops(cancelled')
                   THEN wpc' = "returned" /\ chunk_offset' = chunk_offset
                   ELSE wpc' = "chunk"
                        /\ chunk_offset' = chunk_offset + n_samples
                /\ UNCHANGED <<loop_i, dwp_attention_mask, cross_attn_from,
                               self_attn_copies, n_cross_copy>>
           ELSE IF FirstTokenOnly(max_new_tokens')
           THEN \* line 312: return { false, output_tokens }
                /\ cancelled' = FALSE
                /\ output_tokens' = output_tokens \o chunk_output_tokens'
                /\ IF OuterLoopStops(cancelled')
                   THEN wpc' = "returned" /\ chunk_offset' = chunk_offset
                   ELSE wpc' = "chunk"
                        /\ chunk_offset' = chunk_offset + n_samples
                /\ UNCHANGED <<loop_i, dwp_attention_mask, cross_attn_from,
                               self_attn_copies, n_cross_copy>>
           ELSE \* line 315: prepare_decoder_with_past, then the loop
                /\ dwp_attention_mask' = BuildMask(MaskSize)
                /\ cross_attn_from' = chunk_offset
                /\ n_cross_copy' = n_cross_copy + 1
                /\ self_attn_copies' =
                       <<[source |-> "decoder", kv_pos |-> 0]>>
                /\ loop_i' = 0
                /\ wpc' = "loop"
                /\ UNCHANGED <<output_tokens, chunk_offset, cancelled>>
    /\ UNCHANGED <<wcall, dwp_input_ids, dwp_position_ids, n_dwp_infer,
                   nonspeech>>

\* full_decode lines 316-318 with decode_with_past lines 222-281: the
\* inputs of the step are written, the inference runs, the token is
\* selected, and decode_with_past throws (line 281) instead of returning
\* it: lines 319-328 of the loop are never reached
DecodeWithPast ==
    /\ wpc = "loop"
    /\ WhisperLoopCond(loop_i, max_new_tokens)
    /\ LET position_id == PositionId(loop_i)
           idx == MaskFlipIndex(position_id)
       IN  /\ dwp_input_ids' = chunk_output_tokens[Len(chunk_output_tokens)]
           /\ dwp_position_ids' = position_id
           \* the write is not checked against the size of the mask; the
           \* only step that runs (i = 0) writes position 3
           /\ dwp_attention_mask' =
                  [dwp_attention_mask EXCEPT ![idx + 1] = 1]
    /\ n_dwp_infer' = n_dwp_infer + 1
    /\ \E raw \in LogitRows :
        /\ raw_logits' = raw
        /\ output_tensor' = DecodeWithPastLogits(raw, wcall)
    /\ wpc' = "threw"
    /\ UNCHANGED <<wcall, output_tokens, chunk_offset, cancelled,
                   max_new_tokens, chunk_output_tokens, loop_i,
                   cross_attn_from, self_attn_copies, n_encode, n_decode,
                   n_cross_copy, sink_tokens, nonspeech>>

\* generate line 415 (return), line 375 and decode_with_past line 281
\* (exceptions): control is back with the caller, the locals of the call
\* are gone, the graphs of the pipeline stay
WhisperReturn ==
    /\ wpc \in {"returned", "threw", "error"}
    /\ wpc' = "idle"
    /\ wcall' = NoWhisperCall
    /\ output_tokens' = << >>
    /\ chunk_offset' = 0
    /\ cancelled' = FALSE
    /\ max_new_tokens' = 0
    /\ chunk_output_tokens' = << >>
    /\ loop_i' = 0
    /\ self_attn_copies' = << >>
    /\ n_encode' = 0
    /\ n_decode' = 0
    /\ n_dwp_infer' = 0
    /\ n_cross_copy' = 0
    /\ raw_logits' = NoLogits
    /\ output_tensor' = NoLogits
    /\ sink_tokens' = << >>
    /\ UNCHANGED <<dwp_input_ids, dwp_position_ids, dwp_attention_mask,
                   cross_attn_from, nonspeech>>

WhisperNext ==
    WhisperGenerate \/ ChunkLoopExit \/ Chunk \/ DecodeWithPast
        \/ WhisperReturn

SpecWhisper == Init /\ [][WhisperNext]_vars

\* ------------------------------------------- constructor: actions
\* the constructor has not run yet
CtorInit ==
    /\ PipelineInit
    /\ ctor_pc = "start"
    /\ kvcache_model = NoModel
    /\ prefill_model = NoModel

\* lines 129-131: read the model and expose its cache
ReadModel ==
    /\ ctor_pc = "start"
    /\ \E template \in Templates : kvcache_model' = template
    /\ ctor_pc' = "exposed"
    /\ UNCHANGED <<prefill_model, tvars, wvars>>

\* lines 133-134: the prefill model is a clone
CloneModel ==
    /\ ctor_pc = "exposed"
    /\ prefill_model' = kvcache_model
    /\ ctor_pc' = "cloned"
    /\ UNCHANGED <<kvcache_model, tvars, wvars>>

\* line 139: reshape_to_static(prefill_model, total_size, total_size)
ReshapePrefill ==
    /\ ctor_pc = "cloned"
    /\ prefill_model' = reshape_to_static(prefill_model,
                                          m_kvcache_desc.total_size,
                                          m_kvcache_desc.total_size)
    /\ ctor_pc' = "prefill_static"
    /\ UNCHANGED <<kvcache_model, tvars, wvars>>

\* line 140: reshape_to_static(kvcache_model, 1u, total_size)
ReshapeKVCache ==
    /\ ctor_pc = "prefill_static"
    /\ kvcache_model' = reshape_to_static(kvcache_model, 1,
                                          m_kvcache_desc.total_size)
    /\ ctor_pc' = "static"
    /\ UNCHANGED <<prefill_model, tvars, wvars>>

\* line 142: kvcache_model = add_slices_to_kvcache_inputs(kvcache_model)
AddSlices ==
    /\ ctor_pc = "static"
    /\ kvcache_model' = add_slices_to_kvcache_inputs(kvcache_model)
    /\ ctor_pc' = "sliced"
    /\ UNCHANGED <<prefill_model, tvars, wvars>>

\* lines 144-151: both models are compiled and the tensors initialised
\* (PipelineInit is the state prepare_for_new_conversation leaves)
Compile ==
    /\ ctor_pc = "sliced"
    /\ ctor_pc' = "compiled"
    /\ UNCHANGED <<kvcache_model, prefill_model, tvars, wvars>>

CtorNext ==
    ReadModel \/ CloneModel \/ ReshapePrefill \/ ReshapeKVCache
        \/ AddSlices \/ Compile

SpecShapes == CtorInit /\ [][CtorNext]_vars

\* ---------------------------------------------------------------- claims
stored_count == m_kvcache_desc.num_stored_tokens
total_capacity == m_kvcache_desc.total_size
InferenceRun == n_prefill_infer + n_kvcache_infer

\* C1: in every reachable state the cache descriptor satisfies
\* 0 <= num_stored_tokens <= total_size.
C1_StoredWithinCapacity ==
    0 <= stored_count /\ stored_count <= total_capacity

\* C2: in every call that passes the checks, whatever earlier calls left
\* behind, stored_count equals prompt_len right after the prefill inference
\* and every generate-graph inference adds exactly 1 to it, so that after k
\* generate steps stored_count = prompt_len + k.
C2_StoredCountTracksTokens ==
    /\ [](n_prefill_infer = 1 =>
              stored_count = call.prompt_len + n_kvcache_infer)
    /\ [][/\ n_prefill_infer' = n_prefill_infer + 1 =>
                  stored_count' = call.prompt_len
          /\ n_kvcache_infer' = n_kvcache_infer + 1 =>
                  stored_count' = stored_count + 1]_vars

\* C2 witness: the second call on the pipeline, a prompt of one token, two
\* generate steps made.
C2_Witness ==
    /\ ncalls = 2
    /\ call.prompt_len = 1
    /\ n_kvcache_infer = 2
    /\ stored_count = 3

\* C3 (as stated): every call with prompt_len > total_capacity ends in the
\* capacity-exceeded error and runs neither graph.
C3_Original ==
    (pc # "idle" /\ call.prompt_len > total_capacity) =>
        /\ pc = "error"
        /\ outcome = "capacity"
        /\ InferenceRun = 0

\* C3 (amended): every call with prompt_len > total_capacity ends in an error
\* and runs neither graph; the error is the capacity-exceeded one exactly
\* when the call has batch size 1 and a valid, greedy configuration (the
\* batch, validation and greedy checks come first and report their own
\* error).
C3_CapacityRejected ==
    (pc # "idle" /\ call.prompt_len > total_capacity) =>
        /\ pc = "error"
        /\ InferenceRun = 0
        /\ outcome = "capacity" <=>
               (~call.vector /\ call.batch = 1 /\ call.valid /\ call.greedy)

\* C3 witness: a call rejected with the capacity-exceeded error.
C3_Witness ==
    /\ pc = "error"
    /\ outcome = "capacity"
    /\ call.prompt_len = total_capacity + 1

\* C4: a call with batch size > 1 (vector of strings, or input_ids with first
\* dimension > 1) or with a non-greedy configuration is rejected with an
\* error, no inference is run for it, and the descriptor and the padded
\* prefill/generate input buffers are what they were before the call.
C4_RejectedCallTouchesNothing ==
    [][(/\ ncalls' = ncalls + 1
        /\ (call'.vector \/ call'.batch > 1 \/ ~call'.greedy)) =>
           /\ pc' = "error"
           /\ outcome' \in {"batch", "validate", "greedy"}
           /\ (call'.vector \/ call'.batch > 1) => outcome' = "batch"
           /\ n_prefill_infer' = 0 /\ n_kvcache_infer' = 0
           /\ UNCHANGED pipeline]_vars

\* C4 witness: a non-greedy call rejected on a pipeline whose earlier call
\* left tokens in the cache and a prompt in the prefill buffers.
C4_Witness ==
    /\ pc = "error"
    /\ outcome = "greedy"
    /\ stored_count = 2
    /\ prefill_input_ids[TotalSize] # m_tokenizer.pad_token_id
    /\ kvcache_attention_mask[TotalSize] = 1

\* C5: no generate-graph inference is run in a state where
\* stored_count = total_capacity, also when the prompt fills the cache.
C5_NoInferenceWhenFull ==
    [][n_kvcache_infer' = n_kvcache_infer + 1 =>
           stored_count # total_capacity]_vars

\* C6: when the sink first answers stop on the k-th produced token (the
\* prefill token being the 1st), k <= max_new_tokens, the returned token
\* list has exactly k tokens.
C6_StreamStopReturnsK ==
    (/\ pc = "returned"
     /\ sink_stop
     /\ Len(streamed) <= call.max_new_tokens) =>
        Len(results_tokens) = Len(streamed)

\* C7: if the sink answers stop for the token selected from the prefill
\* logits, generate returns normally with an empty token list, and neither a
\* generate-graph inference nor the prefill-to-generate transfer (attention
\* mask and cache) is made in that call.
C7_StopAfterPrefill ==
    (n_prefill_infer = 1 /\ sink_stop /\ Len(streamed) = 1) =>
        /\ pc = "returned"
        /\ outcome = "stream_prefill"
        /\ results_tokens = << >>
        /\ n_kvcache_infer = 0
        /\ n_cache_copy = 0
        /\ kvcache_attention_mask = fill_tensor(kvcache_attention_mask, 0)

\* C7 witness: a call stopped by the sink on the prefill token.
C7_Witness ==
    /\ pc = "returned"
    /\ outcome = "stream_prefill"
    /\ streamed = <<last_token>>
    /\ call.prompt_len = 2

\* C8: when the loop stops on end-of-sequence the returned list does not
\* contain the token that stopped it, whereas after a stream stop the
\* stop-triggering token is the last element of the list.
C8_EosExcludedStreamKept ==
    /\ (pc = "returned" /\ outcome = "eos") =>
           /\ Len(results_tokens) = n_kvcache_infer - 1
           /\ \A j \in 1..Len(results_tokens) : results_tokens[j] # last_token
    /\ (pc = "returned" /\ outcome = "stream") =>
           /\ Len(results_tokens) > 0
           /\ results_tokens[Len(results_tokens)] = last_token

\* C9: a loop step ends the call on end-of-sequence exactly when the token it
\* selected equals the eos_token_id of the configuration in effect for the
\* call (the override's, the pipeline default only when the override leaves
\* it at -1).
C9_EosOfCallConfig ==
    (/\ n_kvcache_infer >= 1
     /\ pc \in {"loop", "returned"}
     /\ outcome # "stream") =>
        (outcome = "eos" <=> last_token = ConfigEosTokenId(call))

\* C10: for every maximum new-token count N, N = 0 and N = 1 included, the
\* returned list has at most N tokens and the generate graph is run at most
\* N - 1 times (0 times when N <= 1).
C10_AtMostMaxNewTokens ==
    /\ Len(results_tokens) <= call.max_new_tokens
    /\ n_kvcache_infer <=
           (IF call.max_new_tokens <= 1 THEN 0 ELSE call.max_new_tokens - 1)

Min(a, b) == IF a <= b THEN a ELSE b
Max(a, b) == IF a >= b THEN a ELSE b

\* C11: a call that passed the checks makes at most
\* min(max_new_tokens - 1, total_capacity - prompt_len) generate-graph
\* inferences before it reaches its terminal outcome (and none after it).
C11_TerminatesWithinBound ==
    n_prefill_infer = 1 =>
        n_kvcache_infer <=
            Max(0, Min(call.max_new_tokens - 1,
                       total_capacity - call.prompt_len))

\* C12: at the prefill inference the position-id buffer holds 0 in its
\* leftmost total_capacity - prompt_len slots and 0, 1, ..., prompt_len - 1
\* in its rightmost prompt_len slots, and the writes stay inside the buffer
\* (prompt_len = 0 included).
C12_PositionIdsRightAligned ==
    pc = "padded" =>
        /\ IotaFirst(m_kvcache_desc, call.prompt_len) <=
               Len(prefill_position_ids)
        /\ \A j \in 1..Len(prefill_position_ids) :
               prefill_position_ids[j] =
                   IF j > total_capacity - call.prompt_len
                   THEN j - 1 - (total_capacity - call.prompt_len)
                   ELSE 0

\* C13: after fill_tensor and copy_with_left_offset the rightmost L elements
\* of the padded buffer are the original sequence in order and the leftmost
\* C - L elements are the fill value: the pad token id for the input ids, 0
\* for the attention mask.
C13_LeftPaddingRoundTrip ==
    pc \in {"padded", "loop", "returned", "crashed"} =>
        LET L == Len(input_ids)
            C == Len(prefill_input_ids)
        IN  /\ L = call.prompt_len /\ Len(attention_mask) = L /\ L <= C
            /\ Len(prefill_attention_mask) = C
            /\ \A j \in 1..L :
                   /\ prefill_input_ids[C - L + j] = input_ids[j]
                   /\ prefill_attention_mask[C - L + j] = attention_mask[j]
            /\ \A j \in 1..(C - L) :
                   /\ prefill_input_ids[j] = m_tokenizer.pad_token_id
                   /\ prefill_attention_mask[j] = 0

\* C13 witness: on a pipeline used before, a prompt 1, 2 with mask 0, 1 is
\* padded into buffers of three slots.
C13_Witness ==
    /\ pc = "padded"
    /\ ncalls = 2
    /\ input_ids = <<1, 2>>
    /\ attention_mask = <<0, 1>>
    /\ prefill_input_ids = <<m_tokenizer.pad_token_id, 1, 2>>
    /\ prefill_attention_mask = <<0, 0, 1>>

\* a sequence left-padded into a buffer of total_capacity slots
LeftPadded(seq, fill) ==
    [j \in 1..total_capacity |->
        IF j > total_capacity - Len(seq)
        THEN seq[j - (total_capacity - Len(seq))]
        ELSE fill]

\* the position ids a newly constructed pipeline computes for the call
FreshPositionIds ==
    LET zeros == [j \in 1..total_capacity |-> 0]
        first == IotaFirst(m_kvcache_desc, call.prompt_len)
    IN  IF first <= total_capacity THEN iota_from(zeros, first) ELSE zeros

\* the generate attention mask a newly constructed pipeline holds after k
\* loop steps of the call
FreshGenerateMask(k) ==
    [j \in 1..total_capacity |->
        IF /\ j <= total_capacity - call.prompt_len
           /\ j > total_capacity - call.prompt_len - k
        THEN 1
        ELSE LeftPadded(attention_mask, 0)[j]]

\* C14: whatever calls came before, an accepted call starts from
\* stored_count = 0 and freshly padded prefill buffers, and every tensor its
\* inferences read (prefill inputs, generate mask, transferred cache) is the
\* one a newly constructed pipeline would hold for the same request; so two
\* runs of one request return the same tokens.
C14_NoCrossRequestState ==
    /\ pc \in {"padded", "loop"} =>
           /\ prefill_input_ids =
                  LeftPadded(input_ids, m_tokenizer.pad_token_id)
           /\ prefill_attention_mask = LeftPadded(attention_mask, 0)
           /\ prefill_position_ids = FreshPositionIds
    /\ pc = "padded" =>
           /\ stored_count = 0
           /\ kvcache_attention_mask = [j \in 1..total_capacity |-> 0]
    /\ pc = "loop" =>
           /\ stored_count = call.prompt_len + n_kvcache_infer
           /\ kvcache_attention_mask = FreshGenerateMask(n_kvcache_infer)
           /\ \A s \in CacheSlots : Len(cache_copied_from[s]) = 1

\* C14 witness: an earlier call ran its loop (cache inputs are bound, the
\* generate position id is left at 2); the next call has a shorter prompt
\* and is about to run its prefill.
C14_Witness ==
    /\ pc = "padded"
    /\ ncalls = 2
    /\ call.prompt_len = 1
    /\ kvcache_position_ids = 2
    /\ kvcache_inputs = BindCacheInputs(kvcache_inputs)

\* C15: before the first generate step of a call every cache slot i has the
\* generate graph's output number 1 + i bound as its input number 3 + i and
\* the prefill output of the same name copied into it exactly once; every
\* generate step runs with that binding and makes no further cache copy.
C15_CacheBoundOnce ==
    /\ [](pc = "loop" =>
            \A s \in CacheSlots :
                /\ kvcache_inputs[s] =
                       <<"output", kStartOutputKVCacheLayers + s>>
                /\ cache_copied_from[s] =
                       << <<"prefill", kStartOutputKVCacheLayers + s>> >>)
    /\ [][n_kvcache_infer' = n_kvcache_infer + 1 =>
              /\ \A s \in CacheSlots :
                     kvcache_inputs[s] =
                         <<"output", kStartOutputKVCacheLayers + s>>
              /\ UNCHANGED <<kvcache_inputs, cache_copied_from>>]_vars

\* C15 witness: two generate steps made with the cache bound.
C15_Witness ==
    /\ pc = "loop"
    /\ n_kvcache_infer = 2
    /\ kvcache_inputs[1] = <<"output", 2>>
    /\ cache_copied_from[1] = << <<"prefill", 2>> >>

\* ------------------------------------------- speech pipeline: claims
\* positions (counted from 0) of the ones of a mask
OnesOf(mask) == {j - 1 : j \in {k \in 1..Len(mask) : mask[k] = 1}}
\* number of tokens of the fixed special-token prompt
prompt_len == Len(StartTokens)

C17_SelfAttnCopyPerStep ==
    wpc \in {"loop", "threw"} =>
        /\ Len(self_attn_copies) = n_dwp_infer + 1
        /\ self_attn_copies[1] = [source |-> "decoder", kv_pos |-> 0]
        /\ \A k \in 2..Len(self_attn_copies) :
            /\ self_attn_copies[k].source = "decoder_with_past"
            /\ self_attn_copies[k].kv_pos > self_attn_copies[k - 1].kv_pos
            /\ self_attn_copies[k].kv_pos = k - 2

\* C18 as stated: the mask built before the decode loop has its ones on
\* the positions of the special-token prompt and on the final position.
C18_Original ==
    (wpc = "loop" /\ loop_i = 0) =>
        OnesOf(dwp_attention_mask) =
            (0..(prompt_len - 1)) \cup {MaskSize - 1}

\* C18 amended: the mask built before the decode loop has its ones on the
\* first three positions (all prompt positions but the last) and on the
\* final position; at the i-th decode-with-past inference the ones are
\* exactly positions 0 .. prompt_len + i - 1 plus the final position; and
\* no step of the loop clears a bit.
C18_MaskGrows ==
    /\ [](/\ (wpc = "loop" /\ loop_i = 0) =>
                OnesOf(dwp_attention_mask) =
                    (0..(PrefixOnes - 1)) \cup {MaskSize - 1}
          /\ wpc = "threw" =>
                OnesOf(dwp_attention_mask) =
                    (0..(prompt_len + loop_i - 1)) \cup {MaskSize - 1})
    /\ [][wpc = "loop" =>
            OnesOf(dwp_attention_mask) \subseteq
                OnesOf(dwp_attention_mask')]_vars

\* a decode-with-past inference has run on the mask of its step
C18_Witness ==
    /\ wpc = "threw"
    /\ n_dwp_infer = 1
    /\ dwp_position_ids = prompt_len + loop_i
    /\ dwp_attention_mask[prompt_len + loop_i] = 1

C20_BudgetRespected ==
    /\ [](wpc # "idle" => Len(output_tokens) <= wcall.max_new_tokens)
    /\ [][/\ n_encode' = n_encode + 1 =>
               /\ Len(output_tokens) < wcall.max_new_tokens
               /\ max_new_tokens' =
                      wcall.max_new_tokens - Len(output_tokens)
          /\ (wpc = "chunk" /\ output_tokens' # output_tokens) =>
               output_tokens' = output_tokens \o chunk_output_tokens']_vars

\* a call on two chunks returned after the first one used the budget up
C20_Witness ==
    /\ wpc = "returned"
    /\ ~cancelled
    /\ wcall.size > n_samples
    /\ wcall.max_new_tokens = 1
    /\ Len(output_tokens) = 1
    /\ n_encode = 1
    /\ chunk_offset = n_samples

\* the suppression lists applied to the logits row of the last inference:
\* both lists after the first decode, suppress_tokens after a
\* decode-with-past step
SuppressedNow ==
    IF wpc = "threw" THEN wcall.suppress_tokens
    ELSE wcall.begin_suppress_tokens \cup wcall.suppress_tokens

\* C21: after every decode and decode-with-past inference the listed
\* indices of the logits row are at negative infinity and every other entry
\* is as the inference produced it (the first decode applies both lists, a
\* decode-with-past step suppress_tokens); suppressing again changes
\* nothing; and the token selected is never a suppressed index when some
\* unsuppressed entry is finite, the one unsuppressed index when all others
\* are suppressed.
C21_Suppression ==
    (n_decode >= 1 /\ wpc # "idle") =>
        /\ \A idx \in WhisperVocab :
            /\ idx \in SuppressedNow => output_tensor[idx + 1] = NegInf
            /\ idx \notin SuppressedNow =>
                   output_tensor[idx + 1] = raw_logits[idx + 1]
        /\ suppress_tokens(output_tensor, wcall.suppress_tokens)
               = output_tensor
        /\ suppress_tokens(output_tensor, SuppressedNow) = output_tensor
        /\ (\E idx \in WhisperVocab \ SuppressedNow :
                output_tensor[idx + 1] # NegInf) =>
               /\ argmax(output_tensor) \notin SuppressedNow
               /\ \A idx \in WhisperVocab :
                      WhisperVocab \ SuppressedNow = {idx} =>
                          argmax(output_tensor) = idx
        /\ wpc # "threw" => chunk_output_tokens[1] = argmax(output_tensor)

\* the first decode ran with an index listed in both sets, the inference
\* scored a suppressed index highest, and another token was selected
C21_Witness ==
    /\ n_decode = 1
    /\ wpc = "returned"
    /\ wcall.begin_suppress_tokens \cap wcall.suppress_tokens # {}
    /\ argmax(raw_logits) \in SuppressedNow
    /\ chunk_output_tokens[1] \notin SuppressedNow
    /\ output_tensor # raw_logits

C27_EosNeverReturned ==
    (wpc \in {"chunk", "returned"} /\ n_decode >= 1) =>
        /\ \A k \in 1..Len(chunk_output_tokens) :
               chunk_output_tokens[k] # wcall.eos_token_id
        /\ wcall.streamer => sink_tokens = chunk_output_tokens

\* C25: with a streaming sink, the tokens put to the sink in a call are the
\* prefill token followed by the tokens of the returned list, in order and
\* once each; the token of a step is put before the eos and cache-full
\* tests of that step; a call without sink puts nothing; and the sink is
\* not called again after it answered stop.
C25_SinkSeesReturnedTokens ==
    /\ [](/\ (call.streamer /\ pc \in {"loop", "returned"}) =>
                /\ Len(streamed) = Len(results_tokens) + 1
                /\ Tail(streamed) = results_tokens
                /\ streamed[Len(streamed)] = last_token
          /\ ~call.streamer => streamed = << >>
          /\ sink_stop => pc = "returned")
    /\ [][/\ sink_stop => Len(streamed') <= Len(streamed)
          /\ (call.streamer /\ n_prefill_infer' = n_prefill_infer + 1) =>
                streamed' = <<last_token'>>
          /\ (call.streamer /\ n_kvcache_infer' = n_kvcache_infer + 1) =>
                streamed' = Append(streamed, last_token')]_vars

\* a streamed call ended on the eos test after the loop had put the eos
\* token, behind the prefill token and an earlier token, to the sink
C25_Witness ==
    /\ pc = "returned"
    /\ call.streamer
    /\ outcome = "eos"
    /\ Len(results_tokens) = 2
    /\ streamed = <<streamed[1]>> \o results_tokens
    /\ streamed[3] = m_generation_config.eos_token_id

\* slots of a cache tensor that hold the entry of a real prompt token or of
\* a generated token
RealSlots(buf) == {j \in 1..Len(buf) : buf[j] \in {"prompt", "token"}}
\* the attention mask handed to the call is all ones
PromptMaskAllOnes == \A j \in 1..Len(attention_mask) : attention_mask[j] = 1

\* C23: at every generate-graph inference of a call whose prompt mask is
\* all ones and whose prompt is shorter than the capacity, the write index
\* total_capacity - stored_count - 1 lies inside the mask, the mask has
\* ones on exactly its rightmost stored_count + 1 positions, and these are
\* the slots of the sliced cache input that hold real entries plus the
\* last position, that of the token being processed.
C23_MaskMarksCache ==
    [][(/\ n_kvcache_infer' = n_kvcache_infer + 1
        /\ PromptMaskAllOnes
        /\ call.prompt_len < total_capacity) =>
            /\ MaskWriteIndex(m_kvcache_desc) >= 0
            /\ MaskWriteIndex(m_kvcache_desc) < Len(kvcache_attention_mask)
            /\ \A j \in 1..total_capacity :
                   kvcache_attention_mask'[j] =
                       (IF j >= total_capacity - stored_count
                        THEN 1 ELSE 0)
            /\ {j \in 1..total_capacity : kvcache_attention_mask'[j] = 1}
                   = RealSlots(KVCacheSlice(kv_buffer))
                         \cup {total_capacity}]_vars

\* two generate steps have run behind a one-token prompt: the cache holds
\* the prompt entry and two token entries, the mask is all ones
C23_Witness ==
    /\ n_kvcache_infer = 2
    /\ call.prompt_len = 1
    /\ attention_mask = <<1>>
    /\ stored_count = 3
    /\ RealSlots(kv_buffer) = (total_capacity - 2)..total_capacity
    /\ kv_buffer[total_capacity - 2] = "prompt"
    /\ kv_buffer[total_capacity] = "token"
    /\ {j \in 1..total_capacity : kvcache_attention_mask[j] = 1}
           = (total_capacity - 2)..total_capacity

\* C24: in every generate step the slot the input slice discards, index 0
\* of the bound cache tensor, holds a padding entry.
C24_DiscardedSlotIsPadding ==
    [][n_kvcache_infer' = n_kvcache_infer + 1 =>
            /\ kv_buffer[1] = "pad"
            /\ Cardinality(RealSlots(kv_buffer')) =
                   Cardinality(RealSlots(kv_buffer)) + 1]_vars

\* ------------------------------------------- constructor: claims
\* the cache parameters, the other parameters and the cache results of a
\* model
CacheParams(model) ==
    SelectSeq(model.params, LAMBDA q : q.name.base = "past_key_values")
NonCacheParams(model) ==
    SelectSeq(model.params, LAMBDA q : q.name.base # "past_key_values")
CacheResults(model) ==
    SelectSeq(model.results, LAMBDA q : q.name.base = "present")

\* C22: with capacity T, the generate graph's cache inputs have T - 1
\* slots after the reshape; after add_slices_to_kvcache_inputs each has T
\* slots and its consumers read the slice [1, T), T - 1 slots; each cache
\* output then has T slots, one more than the sliced content and as many
\* as the widened input, and the shape of the input it is bound to; the
\* prefill graph's cache outputs have the same shape; and the step that
\* adds the slices leaves the other parameters as they were.
C22_StaticShapes ==
    /\ [](/\ ctor_pc = "static" =>
                \A k \in 1..Len(CacheParams(kvcache_model)) :
                    /\ CacheParams(kvcache_model)[k].shape[3]
                           = total_capacity - 1
                    /\ CacheParams(kvcache_model)[k].slice = << >>
          /\ ctor_pc \in {"sliced", "compiled"} =>
                /\ Len(CacheParams(kvcache_model))
                       = Len(CacheResults(kvcache_model))
                /\ Len(CacheResults(prefill_model))
                       = Len(CacheResults(kvcache_model))
                /\ Len(CacheParams(kvcache_model)) >= 2
                /\ \A k \in 1..Len(CacheParams(kvcache_model)) :
                    LET input == CacheParams(kvcache_model)[k]
                        output == CacheResults(kvcache_model)[k]
                        prefill == CacheResults(prefill_model)[k]
                    IN  /\ input.shape[3] = total_capacity
                        /\ input.slice = <<1, total_capacity>>
                        /\ Seen(input) = total_capacity - 1
                        /\ output.shape[3] = Seen(input) + 1
                        /\ output.shape = input.shape
                        /\ prefill.shape = output.shape
                        /\ prefill.name = output.name)
    /\ [][ctor_pc' = "sliced" =>
            /\ NonCacheParams(kvcache_model') = NonCacheParams(kvcache_model)
            /\ Len(kvcache_model'.params) = Len(kvcache_model.params)]_vars

\* the constructor has built both graphs of a model with the largest
\* number of layers and more than one head
C22_Witness ==
    /\ ctor_pc = "compiled"
    /\ Len(CacheParams(kvcache_model)) = 2 * NumCacheLayers
    /\ CacheParams(kvcache_model)[1].shape[2] > 1
    /\ CacheParams(kvcache_model)[1].slice # << >>
    /\ kvcache_model.params[1].shape = <<1, 1>>
    /\ prefill_model.params[1].shape = <<1, total_capacity>>

====
